---- MODULE Spec2Model ----
(***************************************************************************)
(* The EC2 NAT gateway resource of internal/service/ec2/nat_gateway.go:    *)
(* the four lifecycle handlers (Create, Read, Update, Delete), the state   *)
(* refresh function NGStateRefreshFunc, the waiters and the tag updater    *)
(* they call, and the remote control plane they talk to.                   *)
(***************************************************************************)
EXTENDS Integers, Sequences, FiniteSets, TLC

VARIABLES
    d,          \* the schema.ResourceData of the resource: id and attributes
    remote,     \* the NAT gateway as the remote control plane holds it
    op,         \* the handler that is running or that ran last
    pc,         \* where that handler stands
    result,     \* what the handler returned: none, ok, error, panic
    calls,      \* the remote calls the handler has issued and their error codes
    probes,     \* what each probe of the handler returned, in order
    wait,       \* the waiter of the handler: polls, consecutive errors, outcome
    dBefore,    \* the ResourceData the handler was entered with
    createdId,  \* the id the last successful CreateNatGateway call returned
    tagDiff,    \* the old and new tags of the last tag diff, and what it yielded
    cancelled,  \* a cancellation signal is pending for the running wait
    deletedOk   \* Delete has returned success for the tracked id

vars == <<d, remote, op, pc, result, calls, probes, wait, dBefore, createdId,
          tagDiff, cancelled, deletedOk>>

----------------------------------------------------------------------------
(* Bounds of the model *)

\* the waiter's maximum duration, counted in polls
MaxPolls == 3
\* consecutive probe errors the waiter tolerates before it fails
MaxTransientErrors == 1

----------------------------------------------------------------------------
(* Values *)

NatIds == {"nat-1", "nat-2"}
\* the configurations a resource is created from: a public gateway with an
\* elastic IP allocation, a private one without
Descriptors ==
    {[subnet_id |-> "subnet-1", connectivity_type |-> "public",
      allocation_id |-> "eipalloc-1"],
     [subnet_id |-> "subnet-2", connectivity_type |-> "private",
      allocation_id |-> ""]}

\* ec2.NatGatewayState* of the SDK
NatGatewayStatePending == "pending"
NatGatewayStateFailed == "failed"
NatGatewayStateAvailable == "available"
NatGatewayStateDeleting == "deleting"
NatGatewayStateDeleted == "deleted"
NatGatewayStates ==
    {NatGatewayStatePending, NatGatewayStateFailed, NatGatewayStateAvailable,
     NatGatewayStateDeleting, NatGatewayStateDeleted}

ErrCodeNatGatewayNotFound == "NatGatewayNotFound"
\* an error of the remote call that has nothing to do with existence
ErrCodeOther == "RequestLimitExceeded"

Address1 ==
    [AllocationId |-> "eipalloc-1", NetworkInterfaceId |-> "eni-1",
     PrivateIp |-> "10.0.0.1", PublicIp |-> "54.0.0.1"]
Address2 ==
    [AllocationId |-> "eipalloc-2", NetworkInterfaceId |-> "eni-2",
     PrivateIp |-> "10.0.0.2", PublicIp |-> "54.0.0.2"]
\* the NatGatewayAddresses lists the remote system may hold
AddressLists == {<<>>, <<Address1>>, <<Address2, Address1>>}

NoTags == [k \in {} |-> "1"]
\* the tag maps a configuration may hold
TagMaps ==
    {NoTags,
     [k \in {"a"} |-> "1"],
     [k \in {"a", "b"} |-> IF k = "a" THEN "2" ELSE "3"]}

\* provider configuration: default tags and ignored tag keys
DefaultTagsConfig == NoTags
IgnoreTagsConfig == {}
AwsTagKeys == {"aws:cloudformation:stack-id"}

----------------------------------------------------------------------------
(* Tag helpers used by the handlers *)

\* defaultTagsConfig.MergeTags(tags): the defaults, overridden by the tags
MergeTags(defaults, tags) ==
    [k \in DOMAIN defaults \cup DOMAIN tags |->
        IF k \in DOMAIN tags THEN tags[k] ELSE defaults[k]]

\* KeyValueTags.IgnoreAWS: drops the keys AWS reserves
IgnoreAWS(tags) == [k \in DOMAIN tags \ AwsTagKeys |-> tags[k]]

\* KeyValueTags.IgnoreConfig: drops the keys the provider is told to ignore
IgnoreConfig(tags, ignored) == [k \in DOMAIN tags \ ignored |-> tags[k]]

\* KeyValueTags.RemoveDefaultConfig: drops the tags equal to a default tag
RemoveDefaultConfig(tags, defaults) ==
    [k \in {x \in DOMAIN tags : ~(x \in DOMAIN defaults /\ defaults[x] = tags[x])}
        |-> tags[k]]

----------------------------------------------------------------------------
(* The remote control plane (the EC2 API behind conns.AWSClient.EC2Conn) *)

\* no NAT gateway: never created, or purged after its deletion
NoGateway ==
    [NatGatewayId |-> "", State |-> "none", SubnetId |-> "",
     ConnectivityType |-> "", NatGatewayAddresses |-> <<>>, Tags |-> NoTags]

\* what DescribeNatGateways(NatGatewayIds = <<id>>) may answer: an error code or
\* a list of gateways. The control plane is eventually consistent: a gateway
\* that exists may not be visible yet, to the call by id (not-found error) or
\* to the listing (empty list).
DescribeNatGateways(id) ==
    {[err |-> ErrCodeNatGatewayNotFound, NatGateways |-> <<>>],
     [err |-> ErrCodeOther, NatGateways |-> <<>>],
     [err |-> "", NatGateways |-> <<>>]}
    \cup
    (IF remote.State # "none" /\ remote.NatGatewayId = id
        THEN {[err |-> "", NatGateways |-> <<remote>>]}
        ELSE {})

\* what CreateNatGateway may answer: an error, or the id of the new gateway
CreateNatGateway ==
    {[err |-> ErrCodeOther, NatGatewayId |-> ""]}
    \cup {[err |-> "", NatGatewayId |-> i] : i \in NatIds}

\* the error codes DeleteNatGateway(id) may answer ("" is success)
DeleteNatGateway(id) ==
    IF remote.State # "none" /\ remote.NatGatewayId = id
        THEN {"", ErrCodeOther}
        ELSE {ErrCodeNatGatewayNotFound, ErrCodeOther}

\* the states a successful DeleteNatGateway may leave the gateway in
StatesAfterDelete(s) ==
    CASE s \in {NatGatewayStatePending, NatGatewayStateAvailable} -> {NatGatewayStateDeleting}
      [] s = NatGatewayStateFailed -> {NatGatewayStateFailed, NatGatewayStateDeleting}
      [] OTHER -> {s}

\* the states the gateway may move to by itself (provisioning, an out-of-band
\* deletion, the purge of a deleted gateway)
StatesAfter(s) ==
    CASE s = NatGatewayStatePending -> {NatGatewayStateAvailable, NatGatewayStateFailed}
      [] s = NatGatewayStateAvailable -> {NatGatewayStateDeleting}
      [] s = NatGatewayStateFailed -> {NatGatewayStateDeleting}
      [] s = NatGatewayStateDeleting -> {NatGatewayStateDeleted}
      [] s = NatGatewayStateDeleted -> {"none"}
      [] OTHER -> {}

\* the error codes CreateTags / DeleteTags on the gateway may answer
TagCall(id) ==
    IF remote.State # "none" /\ remote.NatGatewayId = id
        THEN {"", ErrCodeOther}
        ELSE {ErrCodeOther}

----------------------------------------------------------------------------
(* NGStateRefreshFunc: one probe of the gateway *)

\* tfawserr.ErrMessageContains(err, code, ""): the error has that code
ErrMessageContains(err, code) == err # "" /\ err = code

\* NGStateRefreshFunc with every describe error taken for not-found
NGStateRefreshFunc_AnyErrorIsNotFound(resp) ==
    IF resp.err # "" THEN [panic |-> FALSE, ng |-> <<>>, state |-> "", err |-> ""]
    ELSE IF Len(resp.NatGateways) = 0
        THEN [panic |-> TRUE, ng |-> <<>>, state |-> "", err |-> ""]
    ELSE [panic |-> FALSE, ng |-> <<resp.NatGateways[1]>>,
          state |-> resp.NatGateways[1].State, err |-> ""]

\* The refresh function applied to the answer of DescribeNatGateways. It
\* returns (ng, state, err); ng is <<>> for nil. Indexing NatGateways[0] of an
\* empty list is a runtime panic.
NGStateRefreshFunc(resp) ==
    LET respIsNil == resp.err # "" /\ ErrMessageContains(resp.err, "NatGatewayNotFound")
    IN  IF resp.err # "" /\ ~respIsNil
            THEN [panic |-> FALSE, ng |-> <<>>, state |-> "", err |-> resp.err]
        ELSE IF respIsNil
            THEN [panic |-> FALSE, ng |-> <<>>, state |-> "", err |-> ""]
        ELSE IF Len(resp.NatGateways) = 0
            THEN [panic |-> TRUE, ng |-> <<>>, state |-> "", err |-> ""]
        ELSE [panic |-> FALSE, ng |-> <<resp.NatGateways[1]>>,
              state |-> resp.NatGateways[1].State, err |-> ""]

\* how a describe answer and the probe made of it are logged
ProbeRecord(resp, p) ==
    [resp |-> IF resp.err = ErrCodeNatGatewayNotFound THEN "notfound"
              ELSE IF resp.err # "" THEN "error"
              ELSE IF Len(resp.NatGateways) = 0 THEN "empty"
              ELSE "object",
     out |-> IF p.panic THEN "panic"
             ELSE IF p.err # "" THEN "error"
             ELSE IF p.ng = <<>> THEN "absent"
             ELSE p.state,
     ng |-> p.ng]

\* a remote call and the error code it answered ("" is success)
Call(name, err) == [call |-> name, err |-> err]

----------------------------------------------------------------------------
(* resourceNatGatewayRead *)

\* strings.ToLower on a state label
ToLower(s) ==
    CASE s = "Pending" -> "pending"
      [] s = "Failed" -> "failed"
      [] s = "Available" -> "available"
      [] s = "Deleting" -> "deleting"
      [] s = "Deleted" -> "deleted"
      [] OTHER -> s

\* the keys of the status map of resourceNatGatewayRead
GoneStates == {NatGatewayStateDeleted, NatGatewayStateDeleting, NatGatewayStateFailed}

\* The body of resourceNatGatewayRead on ResourceData dd, given the answer of
\* its one describe call: the ResourceData it leaves and what it returns.
\* Indexing NatGatewayAddresses[0] of an empty list is a runtime panic, after
\* connectivity_type and subnet_id are set.
resourceNatGatewayRead(dd, resp) ==
    LET p == NGStateRefreshFunc(resp)
    IN  IF p.panic THEN [d |-> dd, result |-> "panic"]
        ELSE IF p.err # "" THEN [d |-> dd, result |-> "error"]
        ELSE IF p.ng = <<>> \/ ToLower(p.state) \in GoneStates
            THEN [d |-> [dd EXCEPT !.id = ""], result |-> "ok"]
        ELSE
            LET ng == p.ng[1]
                d1 == [dd EXCEPT !.connectivity_type = ng.ConnectivityType,
                                 !.subnet_id = ng.SubnetId]
            IN  IF Len(ng.NatGatewayAddresses) = 0
                    THEN [d |-> d1, result |-> "panic"]
                ELSE
                    LET address == ng.NatGatewayAddresses[1]
                        tags == IgnoreConfig(IgnoreAWS(ng.Tags), IgnoreTagsConfig)
                    IN  [d |-> [d1 EXCEPT
                                !.allocation_id = address.AllocationId,
                                !.network_interface_id = address.NetworkInterfaceId,
                                !.private_ip = address.PrivateIp,
                                !.public_ip = address.PublicIp,
                                !.tags = RemoveDefaultConfig(tags, DefaultTagsConfig),
                                !.tags_all = tags],
                         result |-> "ok"]

----------------------------------------------------------------------------
(* WaitNATGatewayCreated / WaitNATGatewayDeleted: the waiters *)

\* how a waiter classifies what a probe returned
Classify(kind, out) ==
    IF kind = "created"
        THEN CASE out = NatGatewayStateAvailable -> "terminal-success"
               [] out = NatGatewayStateFailed -> "terminal-failure"
               [] out \in {NatGatewayStatePending, "absent"} -> "transitional"
               [] OTHER -> "terminal-failure"
        ELSE CASE out \in {NatGatewayStateDeleted, "absent"} -> "terminal-success"
               [] out = NatGatewayStateFailed -> "terminal-failure"
               [] out = NatGatewayStateDeleting -> "transitional"
               [] OTHER -> "terminal-failure"

NewWait == [polls |-> 0, errors |-> 0, outcome |-> "none"]

\* one turn of the waiter's loop on waiter state w, given the probe p it made
WaitForState(kind, w, p) ==
    LET polls == w.polls + 1
        expired == polls >= MaxPolls
    IN  IF p.err # ""
            THEN [polls |-> polls, errors |-> w.errors + 1,
                  outcome |-> IF w.errors + 1 > MaxTransientErrors THEN "Failed"
                              ELSE IF expired THEN "TimedOut" ELSE "none"]
        ELSE
            LET class == Classify(kind, IF p.ng = <<>> THEN "absent" ELSE p.state)
            IN  [polls |-> polls, errors |-> 0,
                 outcome |-> CASE class = "terminal-success" -> "Succeeded"
                               [] class = "terminal-failure" -> "Failed"
                               [] OTHER -> IF expired THEN "TimedOut" ELSE "none"]

----------------------------------------------------------------------------
(* UpdateTags: the tag diff and its application *)

\* a diff that sets the keys old lacks and forgets the changed values
TagsToSet_OnlyNewKeys(old, new) ==
    [k \in DOMAIN new \ DOMAIN old |-> new[k]]

\* keys of new that old lacks or holds with another value
TagsToSet(old, new) ==
    [k \in {x \in DOMAIN new : x \notin DOMAIN old \/ old[x] # new[x]} |-> new[k]]

\* keys of old that new lacks
TagsToRemove(old, new) == DOMAIN old \ DOMAIN new

\* every tag map over two keys and three values: the inputs of the diff
TagKeys == {"a", "b"}
TagValues == {"1", "2", "3"}
AllTagMaps == UNION {[S -> TagValues] : S \in SUBSET TagKeys}

\* the diff of two tag maps: what is to set, what is to remove
TagDiff(old, new) ==
    [old |-> old, new |-> new,
     toSet |-> TagsToSet(old, new), toRemove |-> TagsToRemove(old, new)]

\* no diff was made
NoTagDiff == [old |-> NoTags, new |-> NoTags, toSet |-> NoTags, toRemove |-> {}]

\* the tags of the gateway once the keys rm are removed and the tags set are set
ApplyTags(tags, rm, set) ==
    [k \in (DOMAIN tags \ rm) \cup DOMAIN set |->
        IF k \in DOMAIN set THEN set[k] ELSE tags[k]]

\* an UpdateTags that issues both calls whatever the diff holds
UpdateTags_NoSkip(tags, o, n, e1, e2) ==
    LET rm == TagDiff(o, n).toRemove
        set == TagDiff(o, n).toSet
    IN  [calls |-> <<Call("DeleteTags", e1), Call("CreateTags", e2)>>,
         tags |-> ApplyTags(tags,
                            IF e1 = "" THEN rm ELSE {},
                            IF e2 = "" THEN set ELSE NoTags),
         err |-> IF e1 # "" THEN e1 ELSE e2]

\* UpdateTags(conn, id, o, n), given the answers e1 of the untagging call and e2
\* of the tagging call: the calls it issues, the tags it leaves on the gateway
\* and the error it returns. A call with nothing to do is skipped; the first
\* error ends it.
UpdateTags(tags, o, n, e1, e2) ==
    LET rm == TagDiff(o, n).toRemove
        set == TagDiff(o, n).toSet
        untag == rm # {}
        tag == DOMAIN set # {} /\ (~untag \/ e1 = "")
    IN  [calls |-> (IF untag THEN <<Call("DeleteTags", e1)>> ELSE <<>>)
                   \o (IF tag THEN <<Call("CreateTags", e2)>> ELSE <<>>),
         tags |-> ApplyTags(tags,
                            IF untag /\ e1 = "" THEN rm ELSE {},
                            IF tag /\ e2 = "" THEN set ELSE NoTags),
         err |-> IF untag /\ e1 # "" THEN e1
                 ELSE IF tag /\ e2 # "" THEN e2 ELSE ""]

----------------------------------------------------------------------------
(* The handlers' own control flow *)

\* tfawserr.ErrCodeEquals
ErrCodeEquals(err, code) == err # "" /\ err = code

\* the ResourceData a handler of a new resource is given: the configuration,
\* no id, nothing computed
NewResourceData(desc, tags) ==
    [id |-> "", allocation_id |-> desc.allocation_id,
     connectivity_type |-> desc.connectivity_type,
     network_interface_id |-> "", private_ip |-> "", public_ip |-> "",
     subnet_id |-> desc.subnet_id, tags |-> tags,
     tags_all |-> MergeTags(DefaultTagsConfig, tags)]

\* the ResourceData before any configuration is applied
NoResourceData ==
    NewResourceData([subnet_id |-> "", connectivity_type |-> "", allocation_id |-> ""],
                    NoTags)

\* the CreateNatGatewayInput resourceNatGatewayCreate builds; a field the
\* configuration leaves empty is not set (GetOk)
CreateNatGatewayInput(dd) ==
    [AllocationId |-> dd.allocation_id,
     ConnectivityType |-> dd.connectivity_type,
     SubnetId |-> dd.subnet_id,
     Tags |-> MergeTags(DefaultTagsConfig, dd.tags)]

\* resourceNatGatewayCreate with the d.SetId of the returned id left out
resourceNatGatewayCreate_NoSetId(dd, out) ==
    IF out.err # ""
        THEN [d |-> dd, next |-> "error"]
        ELSE [d |-> dd, next |-> "wait"]

\* resourceNatGatewayCreate after its CreateNatGateway call answered out
resourceNatGatewayCreate(dd, out) ==
    IF out.err # ""
        THEN [d |-> dd, next |-> "error"]
        ELSE [d |-> [dd EXCEPT !.id = out.NatGatewayId], next |-> "wait"]

\* the create path reading on when its wait returned Failed
resourceNatGatewayCreateWaited_FailedIsSuccess(outcome) ==
    IF outcome \notin {"Succeeded", "Failed"} THEN "error" ELSE "read"

\* the create path reading on when its wait ran out of time
resourceNatGatewayCreateWaited_TimedOutIsSuccess(outcome) ==
    IF outcome \notin {"Succeeded", "TimedOut"} THEN "error" ELSE "read"

\* resourceNatGatewayCreate after WaitNATGatewayCreated returned
resourceNatGatewayCreateWaited(outcome) ==
    IF outcome # "Succeeded" THEN "error" ELSE "read"

\* resourceNatGatewayUpdate returning nil in place of its final read
resourceNatGatewayUpdate_NoRead(hasChange, err) ==
    IF hasChange /\ err # "" THEN "error" ELSE "ok"

\* resourceNatGatewayUpdate after its tag update, if any, returned err
resourceNatGatewayUpdate(hasChange, err) ==
    IF hasChange /\ err # "" THEN "error" ELSE "read"

\* resourceNatGatewayDelete without the not-found check: every error is returned
resourceNatGatewayDelete_NotFoundIsError(err) ==
    IF err # "" THEN "error" ELSE "wait"

\* resourceNatGatewayDelete without the error check: any other error goes on to wait
resourceNatGatewayDelete_IgnoresError(err) ==
    IF ErrCodeEquals(err, ErrCodeNatGatewayNotFound) THEN "ok" ELSE "wait"

\* resourceNatGatewayDelete after its DeleteNatGateway call answered err
resourceNatGatewayDelete(err) ==
    IF ErrCodeEquals(err, ErrCodeNatGatewayNotFound) THEN "ok"
    ELSE IF err # "" THEN "error"
    ELSE "wait"

\* resourceNatGatewayDelete dropping the error of WaitNATGatewayDeleted
resourceNatGatewayDeleteWaited_IgnoresError(outcome) == "ok"

\* resourceNatGatewayDelete after WaitNATGatewayDeleted returned
resourceNatGatewayDeleteWaited(outcome) ==
    IF outcome # "Succeeded" THEN "error" ELSE "ok"

----------------------------------------------------------------------------
(* The state machine *)

Init ==
    /\ d = NoResourceData
    /\ remote = NoGateway
    /\ op = "none"
    /\ pc = "idle"
    /\ result = "none"
    /\ calls = <<>>
    /\ probes = <<>>
    /\ wait = NewWait
    /\ dBefore = NoResourceData
    /\ createdId = ""
    /\ tagDiff = NoTagDiff
    /\ cancelled = FALSE
    /\ deletedOk = FALSE

\* no handler is running: the orchestrator may call one
Idle == pc \in {"idle", "done"}

\* where a handler stands once it returned res
ReturnTo(res) == IF res = "panic" THEN "crashed" ELSE "done"

\* resourceNatGatewayCreate up to the return of CreateNatGateway, called on a
\* resource that has no id yet
Create ==
    /\ Idle
    /\ d.id = ""
    /\ \E desc \in Descriptors, tags \in TagMaps, out \in CreateNatGateway,
          addrs \in AddressLists :
          LET dd == NewResourceData(desc, tags)
              input == CreateNatGatewayInput(dd)
              r == resourceNatGatewayCreate(dd, out)
          IN  /\ d' = r.d
              /\ remote' = IF out.err = ""
                              THEN [NatGatewayId |-> out.NatGatewayId,
                                    State |-> NatGatewayStatePending,
                                    SubnetId |-> input.SubnetId,
                                    ConnectivityType |-> input.ConnectivityType,
                                    NatGatewayAddresses |-> addrs,
                                    Tags |-> input.Tags]
                              ELSE remote
              /\ pc' = IF r.next = "error" THEN "done" ELSE "wait"
              /\ result' = IF r.next = "error" THEN "error" ELSE "none"
              /\ createdId' = out.NatGatewayId
              /\ calls' = <<Call("CreateNatGateway", out.err)>>
              /\ dBefore' = dd
    /\ op' = "Create"
    /\ probes' = <<>>
    /\ wait' = NewWait
    /\ tagDiff' = NoTagDiff
    /\ cancelled' = FALSE
    /\ deletedOk' = FALSE

\* one poll of WaitNATGatewayCreated (in Create) or WaitNATGatewayDeleted (in
\* Delete), and the handler's return when the waiter returns
WaitPoll ==
    /\ pc = "wait"
    /\ \E resp \in DescribeNatGateways(d.id) :
          LET p == NGStateRefreshFunc(resp)
              w == WaitForState(IF op = "Create" THEN "created" ELSE "deleted", wait, p)
              next == IF op = "Create"
                         THEN resourceNatGatewayCreateWaited(w.outcome)
                         ELSE resourceNatGatewayDeleteWaited(w.outcome)
          IN  /\ calls' = Append(calls, Call("DescribeNatGateways", resp.err))
              /\ probes' = Append(probes, ProbeRecord(resp, p))
              /\ IF p.panic
                    THEN /\ pc' = "crashed"
                         /\ result' = "panic"
                         /\ wait' = wait
                 ELSE IF w.outcome = "none"
                    THEN /\ pc' = "wait"
                         /\ result' = result
                         /\ wait' = w
                 ELSE /\ pc' = IF next = "read" THEN "read" ELSE "done"
                      /\ result' = IF next = "read" THEN result ELSE next
                      /\ wait' = w
              /\ deletedOk' = (deletedOk \/ (op = "Delete" /\ ~p.panic /\ w.outcome # "none"
                                                /\ next = "ok"))
    /\ cancelled' = (cancelled /\ pc' = "wait")
    /\ UNCHANGED <<d, remote, op, dBefore, createdId, tagDiff>>

\* resourceNatGatewayRead probing a second time when its describe call failed
Read_ProbesAgainOnError ==
    /\ Idle
    /\ d.id # ""
    /\ \E resp \in DescribeNatGateways(d.id) :
          LET r == resourceNatGatewayRead(d, resp)
          IN  /\ d' = r.d
              /\ result' = r.result
              /\ pc' = ReturnTo(r.result)
              /\ probes' = <<ProbeRecord(resp, NGStateRefreshFunc(resp))>>
              /\ calls' = IF r.result = "error"
                              THEN <<Call("DescribeNatGateways", resp.err),
                                     Call("DescribeNatGateways", resp.err)>>
                              ELSE <<Call("DescribeNatGateways", resp.err)>>
    /\ op' = "Read"
    /\ wait' = NewWait
    /\ dBefore' = d
    /\ tagDiff' = NoTagDiff
    /\ cancelled' = FALSE
    /\ UNCHANGED <<remote, createdId, deletedOk>>

\* resourceNatGatewayRead, called by the orchestrator on a tracked resource
Read ==
    /\ Idle
    /\ d.id # ""
    /\ \E resp \in DescribeNatGateways(d.id) :
          LET r == resourceNatGatewayRead(d, resp)
          IN  /\ d' = r.d
              /\ result' = r.result
              /\ pc' = ReturnTo(r.result)
              /\ probes' = <<ProbeRecord(resp, NGStateRefreshFunc(resp))>>
              /\ calls' = <<Call("DescribeNatGateways", resp.err)>>
    /\ op' = "Read"
    /\ wait' = NewWait
    /\ dBefore' = d
    /\ tagDiff' = NoTagDiff
    /\ cancelled' = FALSE
    /\ UNCHANGED <<remote, createdId, deletedOk>>

\* the resourceNatGatewayRead that ends resourceNatGatewayCreate and
\* resourceNatGatewayUpdate
ReadAtEnd ==
    /\ pc = "read"
    /\ \E resp \in DescribeNatGateways(d.id) :
          LET r == resourceNatGatewayRead(d, resp)
          IN  /\ d' = r.d
              /\ result' = r.result
              /\ pc' = ReturnTo(r.result)
              /\ probes' = Append(probes, ProbeRecord(resp, NGStateRefreshFunc(resp)))
              /\ calls' = Append(calls, Call("DescribeNatGateways", resp.err))
    /\ UNCHANGED <<remote, op, wait, dBefore, createdId, tagDiff, cancelled, deletedOk>>

\* resourceNatGatewayUpdate up to its final read: the planned tags_all is n
Update ==
    /\ Idle
    /\ d.id # ""
    /\ \E n \in TagMaps, e1 \in TagCall(d.id), e2 \in TagCall(d.id) :
          LET o == d.tags_all
              hasChange == o # n
              u == UpdateTags(remote.Tags, o, n, e1, e2)
              next == resourceNatGatewayUpdate(hasChange, u.err)
          IN  /\ remote' = IF hasChange THEN [remote EXCEPT !.Tags = u.tags] ELSE remote
              /\ calls' = IF hasChange THEN u.calls ELSE <<>>
              /\ pc' = IF next = "read" THEN "read" ELSE "done"
              /\ result' = IF next = "read" THEN "none" ELSE next
              /\ tagDiff' = TagDiff(o, n)
    /\ op' = "Update"
    /\ probes' = <<>>
    /\ wait' = NewWait
    /\ dBefore' = d
    /\ cancelled' = FALSE
    /\ UNCHANGED <<d, createdId, deletedOk>>

\* resourceNatGatewayDelete calling DeleteNatGateway again when it failed
Delete_RetriesOnError ==
    /\ Idle
    /\ d.id # ""
    /\ \E err \in DeleteNatGateway(d.id) :
          LET next == resourceNatGatewayDelete(err)
          IN  /\ IF err = ""
                    THEN \E s \in StatesAfterDelete(remote.State) :
                            remote' = [remote EXCEPT !.State = s]
                    ELSE remote' = remote
              /\ pc' = IF next = "wait" THEN "wait" ELSE "done"
              /\ result' = IF next = "wait" THEN "none" ELSE next
              /\ calls' = IF next = "error"
                            THEN <<Call("DeleteNatGateway", err), Call("DeleteNatGateway", err)>>
                            ELSE <<Call("DeleteNatGateway", err)>>
              /\ deletedOk' = (deletedOk \/ next = "ok")
    /\ op' = "Delete"
    /\ probes' = <<>>
    /\ wait' = NewWait
    /\ dBefore' = d
    /\ tagDiff' = NoTagDiff
    /\ cancelled' = FALSE
    /\ UNCHANGED <<d, createdId>>

\* resourceNatGatewayDelete dropping the id of the resource
Delete_ClearsId ==
    /\ Idle
    /\ d.id # ""
    /\ \E err \in DeleteNatGateway(d.id) :
          LET next == resourceNatGatewayDelete(err)
          IN  /\ IF err = ""
                    THEN \E s \in StatesAfterDelete(remote.State) :
                            remote' = [remote EXCEPT !.State = s]
                    ELSE remote' = remote
              /\ pc' = IF next = "wait" THEN "wait" ELSE "done"
              /\ result' = IF next = "wait" THEN "none" ELSE next
              /\ calls' = <<Call("DeleteNatGateway", err)>>
              /\ deletedOk' = (deletedOk \/ next = "ok")
    /\ op' = "Delete"
    /\ probes' = <<>>
    /\ wait' = NewWait
    /\ dBefore' = d
    /\ tagDiff' = NoTagDiff
    /\ cancelled' = FALSE
    /\ d' = [d EXCEPT !.id = ""]
    /\ UNCHANGED createdId

\* resourceNatGatewayDelete up to the return of DeleteNatGateway
Delete ==
    /\ Idle
    /\ d.id # ""
    /\ \E err \in DeleteNatGateway(d.id) :
          LET next == resourceNatGatewayDelete(err)
          IN  /\ IF err = ""
                    THEN \E s \in StatesAfterDelete(remote.State) :
                            remote' = [remote EXCEPT !.State = s]
                    ELSE remote' = remote
              /\ pc' = IF next = "wait" THEN "wait" ELSE "done"
              /\ result' = IF next = "wait" THEN "none" ELSE next
              /\ calls' = <<Call("DeleteNatGateway", err)>>
              /\ deletedOk' = (deletedOk \/ next = "ok")
    /\ op' = "Delete"
    /\ probes' = <<>>
    /\ wait' = NewWait
    /\ dBefore' = d
    /\ tagDiff' = NoTagDiff
    /\ cancelled' = FALSE
    /\ UNCHANGED <<d, createdId>>

\* the gateway changes state on the remote side
RemoteStep ==
    /\ \E s \in StatesAfter(remote.State) :
          remote' = IF s = "none" THEN NoGateway ELSE [remote EXCEPT !.State = s]
    /\ UNCHANGED <<d, op, pc, result, calls, probes, wait, dBefore, createdId,
                   tagDiff, cancelled, deletedOk>>

\* a cancellation signal (the caller's abort, a deadline) is raised while a
\* handler waits; no handler takes a context and neither wait is given one
Cancel ==
    /\ pc = "wait"
    /\ ~cancelled
    /\ cancelled' = TRUE
    /\ UNCHANGED <<d, remote, op, pc, result, calls, probes, wait, dBefore, createdId,
                   tagDiff, deletedOk>>

\* the tag diff alone, on every pair of tag maps: UpdateTags is handed an old
\* and a new map and computes what to set and what to remove
InitTagDiff ==
    /\ d = NoResourceData
    /\ remote = NoGateway
    /\ op = "none"
    /\ pc = "diff"
    /\ result = "none"
    /\ calls = <<>>
    /\ probes = <<>>
    /\ wait = NewWait
    /\ dBefore = NoResourceData
    /\ createdId = ""
    /\ tagDiff \in {[old |-> o, new |-> n, toSet |-> NoTags, toRemove |-> {}] :
                       o \in AllTagMaps, n \in AllTagMaps}
    /\ cancelled = FALSE
    /\ deletedOk = FALSE

DiffStep ==
    /\ pc = "diff"
    /\ pc' = "diffed"
    /\ tagDiff' = TagDiff(tagDiff.old, tagDiff.new)
    /\ UNCHANGED <<d, remote, op, result, calls, probes, wait, dBefore, createdId,
                   cancelled, deletedOk>>

SpecTagDiff == InitTagDiff /\ [][DiffStep]_vars

Next ==
    \/ Create
    \/ WaitPoll
    \/ Read
    \/ ReadAtEnd
    \/ Update
    \/ Delete
    \/ RemoteStep
    \/ Cancel

Spec == Init /\ [][Next]_vars

\* a handler that waits goes on polling: the waiter's loop runs on the calling
\* goroutine until it returns
FairSpec == Spec /\ WF_vars(WaitPoll)

----------------------------------------------------------------------------
(* Vocabulary of the properties *)

\* the handler has returned, or has ended in a panic
Returned == pc \in {"done", "crashed"}

Last(s) == s[Len(s)]

TagCalls == {"CreateTags", "DeleteTags"}
IsTagCall(c) == c.call \in TagCalls
IsDescribe(c) == c.call = "DescribeNatGateways"

\* the labels of a gateway that resourceNatGatewayRead keeps
LiveStates == {NatGatewayStatePending, NatGatewayStateAvailable}

\* dd holds the fields of gateway ng, the address fields from its first address
Mapped(dd, ng) ==
    /\ dd.connectivity_type = ng.ConnectivityType
    /\ dd.subnet_id = ng.SubnetId
    /\ Len(ng.NatGatewayAddresses) > 0
    /\ dd.allocation_id = ng.NatGatewayAddresses[1].AllocationId
    /\ dd.network_interface_id = ng.NatGatewayAddresses[1].NetworkInterfaceId
    /\ dd.private_ip = ng.NatGatewayAddresses[1].PrivateIp
    /\ dd.public_ip = ng.NatGatewayAddresses[1].PublicIp
    /\ dd.tags_all = ng.Tags

----------------------------------------------------------------------------
(* C1 *)

\* C1: when the DeleteNatGateway call of Delete fails with the not-found code,
\* Delete returns success and issues no describe call and runs no waiter.
C1_IdempotentDelete ==
    (op = "Delete" /\ calls[1].err = ErrCodeNatGatewayNotFound) =>
        /\ pc = "done"
        /\ result = "ok"
        /\ Len(calls) = 1
        /\ probes = <<>>
        /\ wait = NewWait

C1_Witness ==
    /\ op = "Delete"
    /\ calls[1].err = ErrCodeNatGatewayNotFound
    /\ result = "ok"
    /\ d.id # ""

----------------------------------------------------------------------------
(* C2 *)

\* C2: a Read reports absent (id cleared, no error) exactly when its probe
\* reports not-found or a label among deleted, deleting, failed; for the labels
\* pending and available it keeps the id and maps the gateway's fields.
C2_ReadAbsentExactly ==
    (op = "Read" /\ Returned) =>
        /\ (d.id = "" /\ result = "ok") <=> (probes[1].out \in {"absent"} \cup GoneStates)
        /\ probes[1].out \in LiveStates =>
              /\ result = "ok"
              /\ d.id = dBefore.id
              /\ Mapped(d, probes[1].ng[1])

----------------------------------------------------------------------------
(* C3 *)

\* C3: a Read of a live gateway with no address returns an error (it neither
\* crashes nor defaults); a Read of a live gateway with addresses takes the
\* address fields from the first one.
C3_AddressInvariant ==
    (op = "Read" /\ Returned /\ probes[1].out \in LiveStates) =>
        IF Len(probes[1].ng[1].NatGatewayAddresses) = 0
            THEN pc = "done" /\ result = "error"
            ELSE result = "ok" /\ Mapped(d, probes[1].ng[1])

----------------------------------------------------------------------------
(* C4 *)

\* C4: a probe whose describe call succeeds with no gateway returns absent and
\* no error; a Read on it reports absent, a delete wait on it succeeds.
C4_EmptyResultIsAbsent ==
    /\ (op = "Read" /\ Returned /\ probes[1].resp = "empty") =>
          probes[1].out = "absent" /\ d.id = "" /\ result = "ok"
    /\ (op = "Delete" /\ Returned /\ probes # <<>> /\ Last(probes).resp = "empty") =>
          result = "ok"

----------------------------------------------------------------------------
(* C5 *)

\* C5: a probe whose describe call fails with another code than not-found
\* returns the error, never absent; a Read that meets it returns an error and
\* leaves the id and every field of the resource as they were.
C5_QueryFailurePropagates ==
    /\ \A i \in DOMAIN probes :
          probes[i].resp = "error" => probes[i].out = "error" /\ probes[i].ng = <<>>
    /\ (op \in {"Read", "Update"} /\ Returned /\ probes # <<>>
            /\ Last(probes).resp = "error") =>
          result = "error" /\ d = dBefore
    /\ (op = "Create" /\ Returned /\ wait.outcome = "Succeeded"
            /\ Last(probes).resp = "error") =>
          result = "error" /\ d = [dBefore EXCEPT !.id = createdId]

C5_Witness ==
    /\ op = "Read"
    /\ pc = "done"
    /\ probes[1].resp = "error"
    /\ result = "error"
    /\ d.id # ""
    /\ d.network_interface_id # ""

----------------------------------------------------------------------------
(* C6 *)

\* C6: if the CreateNatGateway call fails, Create returns an error and records
\* no id; if the call succeeds and the wait fails or times out, Create returns
\* an error and the id the call returned is the tracked id.
C6_CreateErrorOutcomes ==
    op = "Create" =>
        /\ calls[1].err # "" =>
              pc = "done" /\ result = "error" /\ d.id = "" /\ Len(calls) = 1
        /\ wait.outcome \in {"Failed", "TimedOut"} =>
              /\ pc = "done"
              /\ result = "error"
              /\ createdId # ""
              /\ d.id = createdId

C6_Witness ==
    /\ op = "Create"
    /\ wait.outcome = "TimedOut"
    /\ result = "error"
    /\ d.id = createdId
    /\ d.id # ""

----------------------------------------------------------------------------
(* C7 *)

\* C7 as the specification words it: an Update issues only tagging and
\* untagging calls, never a describe call, and changes neither the tracked id
\* nor the computed fields. Stated of the Updates that do not end in a panic.
C7_UpdateNoImplicitRead ==
    (op = "Update" /\ result # "panic") =>
        /\ \A i \in DOMAIN calls : IsTagCall(calls[i])
        /\ d.id = dBefore.id
        /\ d.network_interface_id = dBefore.network_interface_id
        /\ d.private_ip = dBefore.private_ip
        /\ d.public_ip = dBefore.public_ip
        /\ d.tags_all = dBefore.tags_all

\* C7, amended: an Update issues its tagging and untagging calls and then, unless
\* one of them failed, exactly one describe call, that of its final read; only
\* that read changes the resource, and it either keeps the id or clears it. An
\* Update whose tag call failed issues no describe call and changes nothing.
C7_UpdateEndsWithRead ==
    op = "Update" =>
        LET tagCalls == SelectSeq(calls, IsTagCall)
            describes == SelectSeq(calls, IsDescribe)
            tagFailed == \E i \in DOMAIN tagCalls : tagCalls[i].err # ""
        IN  /\ calls = tagCalls \o describes
            /\ Len(describes) = Len(probes)
            /\ Len(describes) <= 1
            /\ tagFailed => pc = "done" /\ result = "error" /\ describes = <<>>
            /\ (Returned /\ ~tagFailed) => Len(describes) = 1
            /\ describes = <<>> => d = dBefore
            /\ d.id \in {dBefore.id, ""}

C7_Witness ==
    /\ op = "Update"
    /\ pc = "done"
    /\ result = "ok"
    /\ Len(calls) = 3
    /\ IsDescribe(calls[3])
    /\ d.id # ""
    /\ d.tags_all # dBefore.tags_all

----------------------------------------------------------------------------
(* C8 *)

\* C8: when Update fails on a tag call, or Delete fails on a delete error other
\* than not-found or on a wait that failed or timed out, the handler returns an
\* error, issues no remote call after the failure (no describe call after the
\* tag update, none after the failed delete call, none after the last poll of
\* the wait), and the tracked id is the non-empty id it had when the handler
\* was entered.
C8_FailureKeepsIdentifier ==
    /\ (op = "Update" /\ \E i \in DOMAIN calls : IsTagCall(calls[i]) /\ calls[i].err # "") =>
          /\ pc = "done"
          /\ result = "error"
          /\ \A i \in DOMAIN calls : IsTagCall(calls[i])
          /\ probes = <<>>
          /\ d.id = dBefore.id /\ d.id # ""
    /\ (op = "Delete" /\ calls[1].err \notin {"", ErrCodeNatGatewayNotFound}) =>
          /\ pc = "done"
          /\ result = "error"
          /\ Len(calls) = 1
          /\ d.id = dBefore.id /\ d.id # ""
    /\ (op = "Delete" /\ wait.outcome \in {"Failed", "TimedOut"}) =>
          /\ pc = "done"
          /\ result = "error"
          /\ Len(calls) = 1 + wait.polls
          /\ d.id = dBefore.id /\ d.id # ""

C8_Witness ==
    /\ op = "Delete"
    /\ wait.outcome = "TimedOut"
    /\ result = "error"
    /\ d.id # ""
    /\ d.id = dBefore.id

----------------------------------------------------------------------------
(* C9 *)

\* C9: when the CreateNatGateway call returns an id and the probes of Create
\* return pending labels and then available, Create returns success, the tracked
\* id is the returned id, and subnet_id and connectivity_type are those of the
\* gateway.
C9_CreateSuccessPath ==
    (/\ op = "Create"
     /\ Returned
     /\ Len(probes) >= 2
     /\ \A i \in 1..(Len(probes) - 2) : probes[i].out = NatGatewayStatePending
     /\ probes[Len(probes) - 1].out = NatGatewayStateAvailable
     /\ Last(probes).out = NatGatewayStateAvailable) =>
        /\ pc = "done"
        /\ result = "ok"
        /\ d.id = createdId /\ d.id # ""
        /\ d.subnet_id = Last(probes).ng[1].SubnetId
        /\ d.connectivity_type = Last(probes).ng[1].ConnectivityType

----------------------------------------------------------------------------
(* C10 *)

\* C10: when the DeleteNatGateway call succeeds Delete waits: it returns success
\* only after a probe reported deleted or not-found, a probe reporting failed
\* makes it return an error, and after a probe reporting deleting it goes on
\* polling until the wait times out.
C10_DeleteWaitProtocol ==
    (op = "Delete" /\ calls[1].err = "") =>
        /\ Returned => probes # <<>>
        /\ (pc = "done" /\ result = "ok") =>
              Last(probes).out \in {NatGatewayStateDeleted, "absent"}
        /\ \A i \in DOMAIN probes :
              /\ probes[i].out = NatGatewayStateFailed =>
                    i = Len(probes) /\ pc = "done" /\ result = "error"
              /\ probes[i].out = NatGatewayStateDeleting =>
                    \/ i < Len(probes)
                    \/ pc = "wait"
                    \/ wait.outcome = "TimedOut" /\ pc = "done" /\ result = "error"

C10_Witness ==
    /\ op = "Delete"
    /\ pc = "done"
    /\ result = "ok"
    /\ Len(probes) = 3
    /\ probes[1].out = NatGatewayStateDeleting
    /\ probes[2].out = NatGatewayStateDeleting
    /\ probes[3].out = NatGatewayStateDeleted

----------------------------------------------------------------------------
(* C11 *)

\* C11: a Read issues exactly one describe call and no create, delete, tagging
\* or untagging call, and leaves the gateway on the remote side (its state, its
\* addresses, its tags) as it was; so does the read that ends Create and Update.
C11_ReadNoSideEffect ==
    [][/\ Read =>
            /\ remote' = remote
            /\ Len(calls') = 1 /\ IsDescribe(calls'[1])
            /\ Len(probes') = 1
       /\ ReadAtEnd =>
            /\ remote' = remote
            /\ Len(calls') = Len(calls) + 1
            /\ SubSeq(calls', 1, Len(calls)) = calls
            /\ IsDescribe(Last(calls'))
            /\ Len(probes') = Len(probes) + 1]_vars

C11_Witness ==
    /\ op = "Read"
    /\ pc = "done"
    /\ result = "ok"
    /\ d.id # ""
    /\ remote.State = NatGatewayStateAvailable
    /\ remote.Tags # NoTags
    /\ calls = <<Call("DescribeNatGateways", "")>>

----------------------------------------------------------------------------
(* C12 *)

\* C12: for all old and new tag maps the diff's toSet and toRemove cover, with
\* the unchanged keys, exactly the keys of old and new; toSet and toRemove share
\* no key; removing toRemove from old and then setting toSet gives exactly new;
\* old = {a:1}, new = {a:2, b:3} gives toSet = {a:2, b:3} and toRemove = {}.
C12_TagDiffCorrect ==
    (pc = "diffed" \/ op = "Update") =>
        LET o == tagDiff.old
            n == tagDiff.new
            unchanged == {k \in DOMAIN o \cap DOMAIN n : o[k] = n[k]}
        IN  /\ DOMAIN tagDiff.toSet \cup unchanged \cup tagDiff.toRemove
                  = DOMAIN o \cup DOMAIN n
            /\ DOMAIN tagDiff.toSet \cap tagDiff.toRemove = {}
            /\ ApplyTags(o, tagDiff.toRemove, tagDiff.toSet) = n
            /\ (o = [k \in {"a"} |-> "1"]
                    /\ n = [k \in {"a", "b"} |-> IF k = "a" THEN "2" ELSE "3"])
                  => /\ tagDiff.toSet = n
                     /\ tagDiff.toRemove = {}

C12_Witness ==
    /\ pc = "diffed"
    /\ tagDiff.old = [k \in {"a", "b"} |-> IF k = "a" THEN "1" ELSE "2"]
    /\ tagDiff.new = [k \in {"a"} |-> "3"]
    /\ tagDiff.toSet = [k \in {"a"} |-> "3"]
    /\ tagDiff.toRemove = {"b"}

----------------------------------------------------------------------------
(* C13 *)

\* the positions in calls of the calls named name
CallsOf(name) == {i \in DOMAIN calls : calls[i].call = name}

\* C13: an Update issues at most one tagging call and at most one untagging
\* call, issues no tagging call when there is nothing to set and no untagging
\* call when there is nothing to remove, and issues neither when the old and
\* the new tags are equal.
C13_NoNoOpTagCalls ==
    op = "Update" =>
        /\ Cardinality(CallsOf("CreateTags")) <= 1
        /\ Cardinality(CallsOf("DeleteTags")) <= 1
        /\ DOMAIN tagDiff.toSet = {} => CallsOf("CreateTags") = {}
        /\ tagDiff.toRemove = {} => CallsOf("DeleteTags") = {}
        /\ tagDiff.old = tagDiff.new => \A i \in DOMAIN calls : ~IsTagCall(calls[i])

C13_Witness ==
    /\ op = "Update" /\ pc = "done" /\ result = "ok"
    /\ tagDiff.toRemove = {} /\ DOMAIN tagDiff.toSet # {}
    /\ CallsOf("DeleteTags") = {}
    /\ CallsOf("CreateTags") = {1}

----------------------------------------------------------------------------
(* C14 *)

\* every probe of the running create-wait answered pending, or every probe of
\* the running delete-wait answered deleting
StuckWait ==
    /\ op \in {"Create", "Delete"}
    /\ pc = "wait" \/ wait.polls > 0
    /\ \A i \in DOMAIN probes :
          probes[i].out = IF op = "Create" THEN NatGatewayStatePending
                                           ELSE NatGatewayStateDeleting

\* C14: a wait whose every probe answers the transitional label (pending in a
\* create-wait, deleting in a delete-wait) goes on while fewer than MaxPolls
\* probes were made, returns TimedOut at the MaxPolls-th probe and never
\* Succeeded, and the enclosing Create or Delete then returns an error; no wait
\* polls forever.
C14_StuckWaitTimesOut ==
    /\ [](StuckWait =>
            /\ Len(probes) = wait.polls
            /\ wait.polls <= MaxPolls
            /\ wait.polls < MaxPolls => (wait.outcome = "none" /\ pc = "wait")
            /\ wait.polls = MaxPolls =>
                  (wait.outcome = "TimedOut" /\ pc = "done" /\ result = "error"))
    /\ [](pc = "wait" => wait.polls < MaxPolls)
    /\ (pc = "wait") ~> (pc # "wait")

C14_Witness ==
    /\ StuckWait /\ op = "Create"
    /\ wait.polls = MaxPolls /\ Len(probes) = MaxPolls
    /\ wait.outcome = "TimedOut"
    /\ pc = "done" /\ result = "error" /\ d.id # ""

----------------------------------------------------------------------------
(* C15 *)

\* the first probe of the running create-wait that answered failed, 0 if none
FirstFailedProbe ==
    LET failed == {i \in 1..wait.polls : probes[i].out = NatGatewayStateFailed}
    IN  IF failed = {} THEN 0 ELSE CHOOSE i \in failed : \A j \in failed : i <= j

\* C15: in a create-wait the first probe that answers failed is the last probe
\* made: the wait returns Failed at once and Create returns an error with the
\* id of the created gateway still recorded.
C15_FailedStopsWait ==
    (op = "Create" /\ FirstFailedProbe > 0) =>
        /\ Len(probes) = FirstFailedProbe
        /\ wait.polls = FirstFailedProbe
        /\ wait.outcome = "Failed"
        /\ pc = "done"
        /\ result = "error"
        /\ d.id # "" /\ d.id = createdId

C15_Witness ==
    /\ op = "Create" /\ pc = "done" /\ result = "error"
    /\ Len(probes) = 2
    /\ probes[1].out = NatGatewayStatePending
    /\ probes[2].out = NatGatewayStateFailed
    /\ wait.outcome = "Failed"
    /\ d.id = createdId /\ d.id # ""

----------------------------------------------------------------------------
(* C16 *)

\* the outcomes of a wait that the specification names
WaitOutcomes == {"Succeeded", "Failed", "TimedOut"}

\* C16: once a cancellation signal is raised during a create-wait or a
\* delete-wait, the next poll ends the wait with an outcome that is none of
\* Succeeded, TimedOut and Failed: the wait neither goes on polling nor runs to
\* its maximum duration. Stated of the polls that do not end in a panic.
C16_WaitCancellable ==
    [][(cancelled /\ WaitPoll /\ result' # "panic") =>
          /\ pc' # "wait"
          /\ wait'.outcome \notin WaitOutcomes \cup {"none"}]_vars

----------------------------------------------------------------------------
(* C17 *)

\* C17: a Create issues exactly one CreateNatGateway call, its first call, and
\* a Delete exactly one DeleteNatGateway call, its first call, whatever the
\* call answered and however the wait ended; neither issues the other's call.
C17_NoBlindRetry ==
    /\ op = "Create" =>
          CallsOf("CreateNatGateway") = {1} /\ CallsOf("DeleteNatGateway") = {}
    /\ op = "Delete" =>
          CallsOf("DeleteNatGateway") = {1} /\ CallsOf("CreateNatGateway") = {}
    /\ op \in {"Read", "Update"} =>
          CallsOf("CreateNatGateway") = {} /\ CallsOf("DeleteNatGateway") = {}

C17_Witness ==
    /\ op = "Delete" /\ pc = "done" /\ result = "error"
    /\ wait.outcome = "TimedOut"
    /\ Len(calls) = 1 + MaxPolls
    /\ CallsOf("DeleteNatGateway") = {1}

----------------------------------------------------------------------------
(* C18 *)

\* C18: whenever Create returns success the tracked id is not empty and is the
\* id the CreateNatGateway call returned, whatever the final read of Create
\* met.
C18_CreateSuccessHasId ==
    (op = "Create" /\ pc = "done" /\ result = "ok") =>
        d.id # "" /\ d.id = createdId

----------------------------------------------------------------------------
(* C19 *)

\* C19: the tracked id a Read, an Update or a Delete is entered with is the id
\* the last Create recorded; none of them changes it to another id that is not
\* empty; Delete leaves it as it is, and the only change made to it is its
\* clearing by a Read or by the read that ends Create and Update.
C19_IdStable ==
    /\ op = "Create" =>
          /\ dBefore.id = ""
          /\ d.id \in {createdId, ""}
          /\ (createdId # "" /\ d.id = "") =>
                (wait.outcome = "Succeeded" /\ Len(probes) = wait.polls + 1)
    /\ op = "Read" => d.id \in {dBefore.id, ""}
    /\ op = "Update" =>
          /\ d.id \in {dBefore.id, ""}
          /\ d.id # dBefore.id => Len(probes) = 1
    /\ op = "Delete" => d.id = dBefore.id
    /\ op \in {"Read", "Update", "Delete"} => dBefore.id = createdId /\ createdId # ""

C19_Witness ==
    /\ op = "Read" /\ pc = "done" /\ result = "ok"
    /\ deletedOk
    /\ dBefore.id = createdId /\ createdId # ""
    /\ d.id = ""

----------------------------------------------------------------------------
(* C20 *)

\* C20: after Delete has returned success, every Read of the same id whose
\* describe call does not itself fail reports absent (the id cleared, no
\* error), and no Read maps a live gateway.
C20_DeleteConverges ==
    (deletedOk /\ op = "Read" /\ Returned) =>
        /\ probes[1].out \notin LiveStates
        /\ probes[1].resp # "error" => (pc = "done" /\ result = "ok" /\ d.id = "")

====
